---- MODULE Spec2Model ----
(***************************************************************************)
(* Model of the /ai-assistant request handler of app.py: the history       *)
(* formatter format_chat_history, the two validation checks, the single    *)
(* outbound chat-completion call and the mapping of its outcome to a       *)
(* JSON response with a status code.                                       *)
(*                                                                         *)
(* Python strings that the code inspects (question, role, content, the     *)
(* corpus) are sequences of one-character strings.  JSON values are        *)
(* tagged records [t |-> tag, v |-> payload].  An operator that can raise  *)
(* returns [ok, val, exc]; exc carries the exception type and str(e).      *)
(***************************************************************************)
EXTENDS Integers, Sequences, FiniteSets, TLC

VARIABLES
    app_documentation,  \* the module-level corpus string (line 40)
    requests,           \* per request: position, body, calls, reply, result
    history,            \* input of a stand-alone format_chat_history call
    formatted           \* its outcome: <<>> before the call, <<outcome>> after

vars == <<app_documentation, requests, history, formatted>>

----------------------------------------------------------------------------
(* Bounds *)

NumRequests == 2    \* requests handled concurrently
MaxHistory  == 2    \* longest history list given to the formatter
MaxContent  == 2    \* longest content string of a turn

----------------------------------------------------------------------------
(* JSON values *)

JNull     == [t |-> "null", v |-> <<>>]
JStr(s)   == [t |-> "str",  v |-> s]
JNum(n)   == [t |-> "num",  v |-> n]
JList(s)  == [t |-> "list", v |-> s]
JObj(f)   == [t |-> "obj",  v |-> f]
NotJson   == [t |-> "invalid", v |-> <<>>]   \* a body that does not parse as JSON

\* dict.get(key, default)
Get(obj, key, default) ==
    IF key \in DOMAIN obj.v THEN obj.v[key] ELSE default

NoExc == [type |-> "", msg |-> ""]
Ok(x) == [ok |-> TRUE, val |-> x, exc |-> NoExc]
Raise(type, msg) == [ok |-> FALSE, val |-> <<>>, exc |-> [type |-> type, msg |-> msg]]

\* Python's type name of a JSON value, as it appears in AttributeError texts
TypeName(j) ==
    CASE j.t = "null" -> "NoneType"
      [] j.t = "str"  -> "str"
      [] j.t = "num"  -> "int"
      [] j.t = "list" -> "list"
      [] OTHER        -> "dict"

----------------------------------------------------------------------------
(* str methods *)

Whitespace == {" ", "\t", "\n"}

RECURSIVE LStrip(_)
LStrip(s) ==
    IF s # <<>> /\ Head(s) \in Whitespace THEN LStrip(Tail(s)) ELSE s

RECURSIVE RStrip(_)
RStrip(s) ==
    IF s # <<>> /\ s[Len(s)] \in Whitespace THEN RStrip(SubSeq(s, 1, Len(s) - 1)) ELSE s

\* str.strip()
Strip(s) == RStrip(LStrip(s))

LowerChar(c) ==
    CASE c = "A" -> "a" [] c = "B" -> "b" [] c = "E" -> "e" [] c = "O" -> "o"
      [] c = "R" -> "r" [] c = "S" -> "s" [] c = "T" -> "t" [] c = "U" -> "u"
      [] OTHER -> c

\* str.lower()
Lower(s) == [i \in 1..Len(s) |-> LowerChar(s[i])]

\* sep.join(lines)
RECURSIVE Join(_, _)
Join(lines, sep) ==
    IF lines = <<>> THEN <<>>
    ELSE IF Len(lines) = 1 THEN lines[1]
    ELSE lines[1] \o sep \o Join(Tail(lines), sep)

----------------------------------------------------------------------------
(* format_chat_history, lines 43-57 *)

RoleUser      == <<"u", "s", "e", "r">>
RoleAssistant == <<"a", "s", "s", "i", "s", "t", "a", "n", "t">>
RoleBot       == <<"b", "o", "t">>
UserPrefix    == <<"U", "s", "e", "r", ":", " ">>
AIPrefix      == <<"A", "I", ":", " ">>
Newline       == <<"\n">>

\* msg.get("role", "").lower()
MsgRole(msg) ==
    IF msg.t # "obj" THEN
        Raise("AttributeError", "'" \o TypeName(msg) \o "' object has no attribute 'get'")
    ELSE LET r == Get(msg, "role", JStr(<<>>))
         IN  IF r.t # "str" THEN
                 Raise("AttributeError", "'" \o TypeName(r) \o "' object has no attribute 'lower'")
             ELSE Ok(Lower(r.v))

\* msg.get("content", "").strip()
MsgContent(msg) ==
    LET c == Get(msg, "content", JStr(<<>>))
    IN  IF c.t # "str" THEN
            Raise("AttributeError", "'" \o TypeName(c) \o "' object has no attribute 'strip'")
        ELSE Ok(Strip(c.v))

\* AppendLine with the "bot" alias forgotten
AppendLineNoBot(lines, role, content) ==
    IF role = RoleUser THEN Append(lines, UserPrefix \o content)
    ELSE IF role = RoleAssistant THEN Append(lines, AIPrefix \o content)
    ELSE lines

\* the branch on role: the line appended for one message, if any
AppendLine(lines, role, content) ==
    IF role = RoleUser THEN Append(lines, UserPrefix \o content)
    ELSE IF role \in {RoleAssistant, RoleBot} THEN Append(lines, AIPrefix \o content)
    ELSE lines

\* the for loop over history, from message i on, with the lines collected so far
RECURSIVE FormatLoop(_, _, _)
FormatLoop(msgs, i, lines) ==
    IF i > Len(msgs) THEN Ok(Join(lines, Newline))
    ELSE LET role == MsgRole(msgs[i])
         IN  IF ~role.ok THEN role
             ELSE LET content == MsgContent(msgs[i])
                  IN  IF ~content.ok THEN content
                      ELSE FormatLoop(msgs, i + 1, AppendLine(lines, role.val, content.val))

format_chat_history(h) ==
    IF h.t # "list" THEN Ok(<<>>) ELSE FormatLoop(h.v, 1, <<>>)

----------------------------------------------------------------------------
(* Inputs of the stand-alone formatter run *)

Roles ==
    { RoleUser, <<"U", "s", "e", "r">>, RoleAssistant, <<"B", "O", "T">>,
      <<"s", "y", "s", "t", "e", "m">> }

Chars == {" ", "a"}

SeqsUpTo(S, n) == UNION { [1..k -> S] : k \in 0..n }

Contents == SeqsUpTo(Chars, MaxContent)

Turn(role, content) == JObj([role |-> JStr(role), content |-> JStr(content)])

WellFormedTurns == { Turn(r, c) : r \in Roles, c \in Contents }

MalformedTurns ==
    { JObj([content |-> JStr(<<"a">>)]),                       \* role missing
      JObj([role |-> JStr(RoleUser)]),                         \* content missing
      JObj([role |-> JNull, content |-> JStr(<<"a">>)]),       \* null role
      JObj([role |-> JStr(RoleUser), content |-> JNull]),      \* null content
      JObj([role |-> JStr(RoleBot), content |-> JNum(1)]),     \* non-string content
      JStr(<<"a">>),                                           \* not a record
      JNull }

NonLists == { JNull, JStr(<<"a">>), JNum(1), JObj([role |-> JStr(RoleUser)]) }

HistoryInputs ==
    NonLists \cup { JList(s) : s \in SeqsUpTo(WellFormedTurns \cup MalformedTurns, MaxHistory) }

----------------------------------------------------------------------------
(* load_documentation_from_word, lines 30-37 *)

Unreadable == [readable |-> FALSE, paragraphs |-> <<>>]
Docx(paras) == [readable |-> TRUE, paragraphs |-> paras]

RECURSIVE NonBlank(_)
NonBlank(paras) ==
    IF paras = <<>> THEN <<>>
    ELSE IF Strip(Head(paras)) # <<>> THEN <<Head(paras)>> \o NonBlank(Tail(paras))
    ELSE NonBlank(Tail(paras))

load_documentation_from_word(file) ==
    IF ~file.readable THEN <<>> ELSE Join(NonBlank(file.paragraphs), Newline)

\* what may be found at DOCX_PATH when the process starts
DocFiles ==
    { Unreadable, Docx(<<>>), Docx(<< <<" ">> >>), Docx(<< <<"d">>, <<" ">>, <<"e">> >>) }

----------------------------------------------------------------------------
(* Responses, lines 60-70 *)

error_response(message, status_code) ==
    [success |-> FALSE, error |-> message, status |-> status_code]

\* jsonify(...) returned without a status: Flask answers 200
success_response(answer, model, tokens) ==
    [success |-> TRUE, answer |-> answer, model_used |-> model, tokens_used |-> tokens,
     status |-> 200]

\* the exception classes the handler can meet; all derive from Exception
ExceptionClasses ==
    { "AttributeError", "TypeError", "KeyError", "IndexError", "BadRequest",
      "ConnectionError", "Timeout", "HTTPError", "JSONDecodeError" }

\* Catches narrowed to requests.RequestException
CatchesRequestErrors(exc) == exc.type \in {"ConnectionError", "Timeout", "HTTPError"}

\* except Exception, line 159
Catches(exc) == exc.type \in ExceptionClasses

\* lines 159-161; an exception the clause does not catch leaves the handler
HandleException(exc) ==
    IF Catches(exc) THEN error_response(exc.msg, 500) ELSE [propagated |-> exc]

----------------------------------------------------------------------------
(* ai_assistant up to the outbound call, lines 76-146 *)

\* lines 76-78: get_json, the trimmed question, the raw history
ParseRequest(body) ==
    IF body.t = "invalid" THEN
        Raise("BadRequest", "400 Bad Request: Failed to decode JSON object")
    ELSE IF body.t # "obj" THEN
        Raise("AttributeError", "'" \o TypeName(body) \o "' object has no attribute 'get'")
    ELSE LET q == Get(body, "question", JStr(<<>>))
         IN  IF q.t # "str" THEN
                 Raise("AttributeError", "'" \o TypeName(q) \o "' object has no attribute 'strip'")
             ELSE Ok([user_question |-> Strip(q.v),
                      chat_history_raw |-> Get(body, "history", JList(<<>>))])

\* Validate with the two checks in the other order
ValidateQuestionFirst(doc, user_question) ==
    IF user_question = <<>> THEN
        <<error_response("Missing 'question' in request.", 400)>>
    ELSE IF doc = <<>> THEN
        <<error_response("Application documentation is missing or could not be loaded.", 500)>>
    ELSE <<>>

\* Validate without the question check
ValidateCorpusOnly(doc, user_question) ==
    IF doc = <<>> THEN
        <<error_response("Application documentation is missing or could not be loaded.", 500)>>
    ELSE <<>>

\* lines 80-83: <<>> when both checks pass, else the response returned
Validate(doc, user_question) ==
    IF doc = <<>> THEN
        <<error_response("Application documentation is missing or could not be loaded.", 500)>>
    ELSE IF user_question = <<>> THEN
        <<error_response("Missing 'question' in request.", 400)>>
    ELSE <<>>

NoPriorConversation == "No prior conversation."

\* lines 87-123: the three values interpolated into the template
BuildPrompt(doc, chat_history, user_question) ==
    [documentation |-> doc,
     history |-> IF chat_history # <<>> THEN <<chat_history>> ELSE <<NoPriorConversation>>,
     question |-> user_question]

\* lines 125-145
PostBody(prompt) ==
    [url |-> "https://api.groq.com/openai/v1/chat/completions",
     model |-> "meta-llama/llama-4-scout-17b-16e-instruct",
     user |-> prompt]

Return(resp) == [returned |-> <<resp>>, post |-> <<>>]
Post(out)    == [returned |-> <<>>, post |-> <<out>>]

\* lines 75-147: either a response is returned or the request to post is ready
BeforeCall(doc, body) ==
    LET p == ParseRequest(body)
    IN  IF ~p.ok THEN Return(HandleException(p.exc))
        ELSE LET failed == Validate(doc, p.val.user_question)
             IN  IF failed # <<>> THEN Return(failed[1])
                 ELSE LET chat_history == format_chat_history(p.val.chat_history_raw)
                      IN  IF ~chat_history.ok THEN Return(HandleException(chat_history.exc))
                          ELSE Post(PostBody(BuildPrompt(doc, chat_history.val,
                                                         p.val.user_question)))

----------------------------------------------------------------------------
(* ai_assistant from the outbound call on, lines 147-161 *)

NetworkError(type, msg) ==
    [raised |-> TRUE, exc |-> [type |-> type, msg |-> msg], status_code |-> 0, body |-> NotJson]
HttpResponse(status, body) ==
    [raised |-> FALSE, exc |-> NoExc, status_code |-> status, body |-> body]

\* Response.raise_for_status(): raises for 4xx and 5xx only
raise_for_status(reply) ==
    IF 400 <= reply.status_code /\ reply.status_code < 500 THEN
        Raise("HTTPError", ToString(reply.status_code) \o " Client Error")
    ELSE IF 500 <= reply.status_code /\ reply.status_code < 600 THEN
        Raise("HTTPError", ToString(reply.status_code) \o " Server Error")
    ELSE Ok(<<>>)

\* Response.json()
ResponseJson(reply) ==
    IF reply.body.t = "invalid" THEN
        Raise("JSONDecodeError", "Expecting value: line 1 column 1 (char 0)")
    ELSE Ok(reply.body)

\* j[key] for a string key
Subscript(j, key) ==
    IF j.t = "obj" THEN
        IF key \in DOMAIN j.v THEN Ok(j.v[key]) ELSE Raise("KeyError", "'" \o key \o "'")
    ELSE IF j.t = "list" THEN
        Raise("TypeError", "list indices must be integers or slices, not str")
    ELSE IF j.t = "str" THEN
        Raise("TypeError", "string indices must be integers")
    ELSE Raise("TypeError", "'" \o TypeName(j) \o "' object is not subscriptable")

\* j[0]
First(j) ==
    IF j.t = "list" THEN
        IF j.v # <<>> THEN Ok(j.v[1]) ELSE Raise("IndexError", "list index out of range")
    ELSE IF j.t = "obj" THEN Raise("KeyError", "0")
    ELSE IF j.t = "str" THEN
        IF j.v # <<>> THEN Ok(JStr(<<j.v[1]>>)) ELSE Raise("IndexError", "string index out of range")
    ELSE Raise("TypeError", "'" \o TypeName(j) \o "' object is not subscriptable")

\* line 151: result["choices"][0]["message"]["content"]
MessageContent(result) ==
    LET choices == Subscript(result, "choices")
    IN  IF ~choices.ok THEN choices
        ELSE LET first == First(choices.val)
             IN  IF ~first.ok THEN first
                 ELSE LET message == Subscript(first.val, "message")
                      IN  IF ~message.ok THEN message
                          ELSE Subscript(message.val, "content")

\* TotalTokens without the default 0
TotalTokensNoDefault(result) ==
    LET usage == Get(result, "usage", JObj(<<>>))
    IN  IF usage.t # "obj" THEN
            Raise("AttributeError", "'" \o TypeName(usage) \o "' object has no attribute 'get'")
        ELSE Ok(Get(usage, "total_tokens", JNull))

\* line 156: result.get("usage", {}).get("total_tokens", 0)
TotalTokens(result) ==
    LET usage == Get(result, "usage", JObj(<<>>))
    IN  IF usage.t # "obj" THEN
            Raise("AttributeError", "'" \o TypeName(usage) \o "' object has no attribute 'get'")
        ELSE Ok(Get(usage, "total_tokens", JNum(0)))

\* lines 147-157: the response returned, or the exception raised on the way
MapReply(reply) ==
    IF reply.raised THEN [ok |-> FALSE, val |-> <<>>, exc |-> reply.exc]
    ELSE LET status == raise_for_status(reply)
         IN  IF ~status.ok THEN status
             ELSE LET result == ResponseJson(reply)
                  IN  IF ~result.ok THEN result
                      ELSE LET message == MessageContent(result.val)
                           IN  IF ~message.ok THEN message
                               ELSE LET tokens == TotalTokens(result.val)
                                    IN  IF ~tokens.ok THEN tokens
                                        ELSE Ok(success_response(
                                                 message.val,
                                                 Get(result.val, "model", JNull),
                                                 tokens.val))

\* lines 147-161
AfterCall(reply) ==
    LET mapped == MapReply(reply)
    IN  IF mapped.ok THEN mapped.val ELSE HandleException(mapped.exc)

----------------------------------------------------------------------------
(* Inputs of the handler: request bodies and outcomes of the outbound call *)

Questions ==
    { <<>>,                                   \* key absent
      <<JStr(<<>>)>>, <<JStr(<<" ", "\t">>)>>, \* empty, whitespace only
      <<JNull>>,                              \* null
      <<JStr(<<" ", "a">>)>> }

Histories ==
    { <<>>,                                                       \* key absent
      <<JStr(<<"a">>)>>,                                          \* not a list
      <<JList(<<Turn(<<"U", "s", "e", "r">>, <<"a", " ">>), JObj(<<>>)>>)>>,
      <<JList(<<JStr(<<"a">>)>>)>>,                               \* element not a record
      <<JList(<<JObj([role |-> JNull, content |-> JStr(<<"a">>)])>>)>> }

Field(key, opt) == IF opt = <<>> THEN <<>> ELSE key :> opt[1]

RequestBodies ==
    { NotJson, JNull } \cup
    { JObj(Field("question", q) @@ Field("history", h)) : q \in Questions, h \in Histories }

Hello == <<"H", "e", "l", "l", "o">>
M1    == <<"m", "1">>

Choices(content) == JList(<<JObj([message |-> JObj([content |-> content])])>>)

Completion(content, model, tokens) ==
    JObj([choices |-> Choices(JStr(content)), model |-> JStr(model),
          usage |-> JObj([total_tokens |-> JNum(tokens)])])

ReplyBodies ==
    { NotJson, JNull, JObj(<<>>),
      JObj([choices |-> JList(<<>>)]),
      JObj([choices |-> JList(<<JObj(<<>>)>>)]),
      JObj([choices |-> JList(<<JObj([message |-> JObj(<<>>)])>>)]),
      Completion(Hello, M1, 42),
      Completion(<<>>, <<"m", "2">>, 7),
      JObj([choices |-> Choices(JStr(Hello)), model |-> JStr(M1)]),
      JObj([choices |-> Choices(JStr(Hello)), model |-> JStr(M1), usage |-> JObj(<<>>)]),
      JObj([choices |-> Choices(JStr(Hello)), model |-> JStr(M1), usage |-> JNull]),
      JObj([choices |-> Choices(JNull), usage |-> JObj([total_tokens |-> JNum(3)])]) }

Replies ==
    { NetworkError("ConnectionError", "HTTPSConnectionPool(host='api.groq.com', port=443): Max retries exceeded"),
      NetworkError("Timeout", "HTTPSConnectionPool(host='api.groq.com', port=443): Read timed out.") }
    \cup { HttpResponse(200, b) : b \in ReplyBodies }
    \cup { HttpResponse(201, Completion(Hello, M1, 42)),
           HttpResponse(300, Completion(Hello, M1, 42)),
           HttpResponse(304, NotJson),
           HttpResponse(404, JObj([error |-> JStr(<<"e">>)])),
           HttpResponse(429, Completion(Hello, M1, 42)),
           HttpResponse(500, NotJson) }

----------------------------------------------------------------------------
(* The state machine *)

Ids == 1..NumRequests

Idle == [pc |-> "idle", body |-> <<>>, outbox |-> <<>>, reply |-> <<>>, result |-> <<>>]

Init ==
    /\ \E file \in DocFiles : app_documentation = load_documentation_from_word(file)
    /\ requests = [r \in Ids |-> Idle]
    /\ history = JNull
    /\ formatted = <<>>

\* request r arrives and the handler runs up to its return or to requests.post
Begin(r) ==
    /\ requests[r].pc = "idle"
    /\ \E body \in RequestBodies :
           LET step == BeforeCall(app_documentation, body)
           IN  requests' = [requests EXCEPT ![r] =
                   [pc |-> IF step.post # <<>> THEN "awaiting" ELSE "done",
                    body |-> <<body>>,
                    outbox |-> step.post,
                    reply |-> <<>>,
                    result |-> step.returned]]
    /\ UNCHANGED <<app_documentation, history, formatted>>

\* Complete with the corpus loaded again when the call has failed
CompleteReloading(r) ==
    /\ requests[r].pc = "awaiting"
    /\ \E reply \in Replies :
           /\ requests' = [requests EXCEPT ![r] =
                  [@ EXCEPT !.pc = "done", !.reply = <<reply>>, !.result = <<AfterCall(reply)>>]]
           /\ app_documentation' =
                  IF MapReply(reply).ok THEN app_documentation
                  ELSE load_documentation_from_word(Unreadable)
    /\ UNCHANGED <<history, formatted>>

\* requests.post of request r comes back and the handler runs to its return
Complete(r) ==
    /\ requests[r].pc = "awaiting"
    /\ \E reply \in Replies :
           requests' = [requests EXCEPT ![r] =
               [@ EXCEPT !.pc = "done", !.reply = <<reply>>, !.result = <<AfterCall(reply)>>]]
    /\ UNCHANGED <<app_documentation, history, formatted>>

Next == \E r \in Ids : Begin(r) \/ Complete(r)

Spec == Init /\ [][Next]_vars

\* a stand-alone call format_chat_history(history)
InitFormat ==
    /\ app_documentation = load_documentation_from_word(Unreadable)
    /\ requests = [r \in Ids |-> Idle]
    /\ history \in HistoryInputs
    /\ formatted = <<>>

Format ==
    /\ formatted = <<>>
    /\ formatted' = <<format_chat_history(history)>>
    /\ UNCHANGED <<app_documentation, requests, history>>

NextFormat == Format

SpecFormat == InitFormat /\ [][NextFormat]_vars

----------------------------------------------------------------------------
(* Vocabulary of the properties *)

Done(r)    == requests[r].pc = "done"
Body(r)    == requests[r].body[1]
Result(r)  == requests[r].result[1]
Called(r)  == requests[r].outbox # <<>>
Replied(r) == requests[r].reply # <<>>
Reply(r)   == requests[r].reply[1]

IsSuccess(resp) ==
    /\ DOMAIN resp = {"success", "answer", "model_used", "tokens_used", "status"}
    /\ resp.success = TRUE
    /\ resp.status = 200

IsFailure(resp, code) ==
    /\ DOMAIN resp = {"success", "error", "status"}
    /\ resp.success = FALSE
    /\ resp.status = code

CorpusEmpty == app_documentation = <<>>

IsObject(body) == body.t = "obj"

AllWhitespace(s) == \A i \in 1..Len(s) : s[i] \in Whitespace

\* key absent, null, empty or whitespace-only
QuestionMissingOrBlank(body) ==
    /\ IsObject(body)
    /\ \/ "question" \notin DOMAIN body.v
       \/ body.v["question"].t = "null"
       \/ body.v["question"].t = "str" /\ AllWhitespace(body.v["question"].v)

QuestionPresent(body) ==
    /\ IsObject(body)
    /\ "question" \in DOMAIN body.v
    /\ body.v["question"].t = "str"
    /\ ~AllWhitespace(body.v["question"].v)

Is2xx(reply) == ~reply.raised /\ reply.status_code \in 200..299

\* the body has choices[0].message.content
HasContent(b) ==
    /\ b.t = "obj" /\ "choices" \in DOMAIN b.v
    /\ b.v["choices"].t = "list" /\ b.v["choices"].v # <<>>
    /\ b.v["choices"].v[1].t = "obj" /\ "message" \in DOMAIN b.v["choices"].v[1].v
    /\ b.v["choices"].v[1].v["message"].t = "obj"
    /\ "content" \in DOMAIN b.v["choices"].v[1].v["message"].v

ContentOf(b) == b.v["choices"].v[1].v["message"].v["content"]

HasTokens(b) ==
    /\ "usage" \in DOMAIN b.v /\ b.v["usage"].t = "obj"
    /\ "total_tokens" \in DOMAIN b.v["usage"].v

TokensAbsent(b) ==
    \/ "usage" \notin DOMAIN b.v
    \/ b.v["usage"].t = "obj" /\ "total_tokens" \notin DOMAIN b.v["usage"].v

----------------------------------------------------------------------------
(* C1: while the corpus is empty every request, whatever its question and  *)
(* history, is answered at once with a Failure of status 500; no request   *)
(* gets a Success and none reaches the outbound call.                      *)
C1_EmptyCorpusFails ==
    CorpusEmpty =>
        \A r \in Ids :
            /\ requests[r].pc # "awaiting"
            /\ Done(r) => IsFailure(Result(r), 500)

C1_Witness ==
    /\ CorpusEmpty
    /\ \E r \in Ids :
           /\ Done(r) /\ QuestionMissingOrBlank(Body(r))
           /\ IsFailure(Result(r), 500)
    /\ \E r \in Ids : Done(r) /\ QuestionPresent(Body(r)) /\ IsFailure(Result(r), 500)

(* C2: with a non-empty corpus, a request whose question is absent, null,  *)
(* empty or whitespace-only is answered with a Failure of status 400.      *)
C2_BlankQuestionIs400 ==
    \A r \in Ids :
        Done(r) /\ ~CorpusEmpty /\ QuestionMissingOrBlank(Body(r))
            => IsFailure(Result(r), 400)

(* C5: every finished handling ended by returning a Success or a Failure   *)
(* with a status code; no exception left the handler.                      *)
C5_ErrorMappingTotal ==
    \A r \in Ids :
        /\ Done(r) <=> requests[r].result # <<>>
        /\ Done(r) => \/ IsSuccess(Result(r))
                      \/ IsFailure(Result(r), 400)
                      \/ IsFailure(Result(r), 500)

C5_Witness ==
    /\ \E r \in Ids :
           /\ Done(r) /\ Replied(r) /\ Reply(r) = HttpResponse(200, JObj(<<>>))
           /\ Result(r) = error_response("'choices'", 500)
    /\ \E r \in Ids : Done(r) /\ Replied(r) /\ Reply(r).raised /\ IsFailure(Result(r), 500)

(* C6: with a non-empty corpus and a non-blank question, a 2xx reply with  *)
(* choices[0].message.content = c, model = m and usage.total_tokens = t is *)
(* answered with Success{answer c, model m, tokensUsed t}, status 200;     *)
(* when usage or total_tokens is absent, tokensUsed is 0.                  *)
C6_SuccessMapping ==
    \A r \in Ids :
        (/\ Done(r) /\ ~CorpusEmpty /\ QuestionPresent(Body(r))
         /\ Replied(r) /\ Is2xx(Reply(r)) /\ HasContent(Reply(r).body)
         /\ "model" \in DOMAIN Reply(r).body.v)
        => LET b == Reply(r).body
           IN  /\ HasTokens(b) =>
                     Result(r) = [success |-> TRUE, answer |-> ContentOf(b),
                                  model_used |-> b.v["model"],
                                  tokens_used |-> b.v["usage"].v["total_tokens"],
                                  status |-> 200]
               /\ TokensAbsent(b) =>
                     Result(r) = [success |-> TRUE, answer |-> ContentOf(b),
                                  model_used |-> b.v["model"],
                                  tokens_used |-> JNum(0),
                                  status |-> 200]

C6_Witness ==
    /\ \E r \in Ids :
           /\ Done(r) /\ Replied(r) /\ Reply(r) = HttpResponse(200, Completion(Hello, M1, 42))
           /\ Result(r) = success_response(JStr(Hello), JStr(M1), JNum(42))
    /\ \E r \in Ids :
           /\ Done(r) /\ Replied(r) /\ Is2xx(Reply(r)) /\ HasContent(Reply(r).body)
           /\ "usage" \notin DOMAIN Reply(r).body.v
           /\ IsSuccess(Result(r)) /\ Result(r).tokens_used = JNum(0)

(* C7: when the outbound call fails at transport or HTTP level (network    *)
(* error, timeout, non-2xx status) the request is answered with a Failure  *)
(* of status 500 whose message is the non-empty error detail.              *)
C7_UpstreamFailureIs500 ==
    \A r \in Ids :
        Done(r) /\ Replied(r) /\ ~Is2xx(Reply(r))
            => /\ IsFailure(Result(r), 500)
               /\ Result(r).error # ""
               /\ Reply(r).raised => Result(r).error = Reply(r).exc.msg

\* the outbound call was made and did not yield a usable completion
UpstreamFailed(r) ==
    Replied(r) /\ (~Is2xx(Reply(r)) \/ ~MapReply(Reply(r)).ok)

\* a body of the shape {question?: string, history?: any}
QuestionTyped(body) ==
    /\ IsObject(body)
    /\ "question" \in DOMAIN body.v => body.v["question"].t = "str"

(* C8: the status is 200 exactly for a Success, 400 only when the question *)
(* is missing or blank, 500 only when the corpus is empty or the upstream  *)
(* call failed; so a request with a string question is never failed with   *)
(* 500 on account of the shape of its history.                             *)
C8_StatusCauses ==
    \A r \in Ids :
        Done(r) /\ QuestionTyped(Body(r))
            => /\ Result(r).status = 200 <=> IsSuccess(Result(r))
               /\ Result(r).status = 400 => QuestionMissingOrBlank(Body(r))
               /\ Result(r).status = 500 => CorpusEmpty \/ UpstreamFailed(r)

(* C9: a request makes at most one outbound call, and only after the       *)
(* corpus was found non-empty and the question non-blank; a request that   *)
(* fails validation makes none, and after a failed call the Failure is     *)
(* returned with that one call made.                                       *)
C9_AtMostOneCall ==
    \A r \in Ids :
        /\ Len(requests[r].outbox) <= 1
        /\ Called(r) => ~CorpusEmpty /\ QuestionPresent(Body(r))
        /\ Replied(r) => Done(r) /\ Len(requests[r].outbox) = 1
        /\ requests[r].pc = "awaiting" <=> Called(r) /\ ~Replied(r)

C9_Witness ==
    /\ \E r \in Ids :
           /\ Done(r) /\ Replied(r) /\ ~Is2xx(Reply(r))
           /\ IsFailure(Result(r), 500) /\ Len(requests[r].outbox) = 1
    /\ \E r \in Ids :
           /\ Done(r) /\ ~CorpusEmpty /\ QuestionMissingOrBlank(Body(r))
           /\ ~Called(r)

(* C10: every step leaves the corpus as loaded at start-up and changes the *)
(* state of one request only, however the requests interleave.             *)
C10_CorpusReadOnly ==
    [][/\ app_documentation' = app_documentation
       /\ \E r \in Ids : \A s \in Ids \ {r} : requests'[s] = requests[s]]_vars

C10_Witness ==
    /\ ~CorpusEmpty
    /\ \E r, s \in Ids :
           /\ r # s
           /\ Done(r) /\ Replied(r) /\ IsFailure(Result(r), 500)
           /\ requests[s].pc = "awaiting"

----------------------------------------------------------------------------
(* Properties of format_chat_history, checked on the stand-alone call *)

Formatted == formatted[1]

IsTurn(m) ==
    /\ m.t = "obj" /\ DOMAIN m.v = {"role", "content"}
    /\ m.v["role"].t = "str" /\ m.v["content"].t = "str"

WellFormed(h) == h.t = "list" /\ \A i \in 1..Len(h.v) : IsTurn(h.v[i])

Recognised(m) == Lower(m.v["role"].v) \in {RoleUser, RoleAssistant, RoleBot}

Prefix(m) == IF Lower(m.v["role"].v) = RoleUser THEN UserPrefix ELSE AIPrefix

\* the lines concatenated with a newline between consecutive ones
RECURSIVE Joined(_)
Joined(lines) ==
    IF lines = <<>> THEN <<>>
    ELSE IF Len(lines) = 1 THEN lines[1]
    ELSE Joined(SubSeq(lines, 1, Len(lines) - 1)) \o <<"\n">> \o lines[Len(lines)]

\* one line per recognised turn, in input order, with the content as given
LinesAsGiven(h) ==
    LET kept == SelectSeq(h.v, Recognised)
    IN  [i \in 1..Len(kept) |-> Prefix(kept[i]) \o kept[i].v["content"].v]

\* the same with each content trimmed of leading and trailing whitespace
LinesTrimmed(h) ==
    LET kept == SelectSeq(h.v, Recognised)
    IN  [i \in 1..Len(kept) |-> Prefix(kept[i]) \o Strip(kept[i].v["content"].v)]

(* C3: format_chat_history returns a string for every input and never      *)
(* raises; for an input that is not a list it returns the empty string.    *)
C3_FormatterTotal ==
    formatted # <<>> =>
        /\ Formatted.ok
        /\ history.t # "list" => Formatted.val = <<>>

(* C4: for a list of well-formed turns the output is one line per turn     *)
(* whose lower-cased role is user, assistant or bot, in input order,       *)
(* joined by newlines: "User: " or "AI: " followed by the content as       *)
(* given; turns with any other role, and only those, are dropped.          *)
C4_ContentAsGiven ==
    formatted # <<>> /\ WellFormed(history)
        => Formatted.ok /\ Formatted.val = Joined(LinesAsGiven(history))

(* C4 as amended: the same, with each content trimmed of leading and       *)
(* trailing whitespace.                                                    *)
C4_ContentTrimmed ==
    formatted # <<>> /\ WellFormed(history)
        => Formatted.ok /\ Formatted.val = Joined(LinesTrimmed(history))

C4_Witness ==
    /\ formatted # <<>> /\ WellFormed(history) /\ Len(history.v) = MaxHistory
    /\ \E i \in 1..Len(history.v) :
           /\ Lower(history.v[i].v["role"].v) = RoleBot
           /\ history.v[i].v["content"].v # Strip(history.v[i].v["content"].v)
    /\ \E i \in 1..Len(history.v) : history.v[i].v["role"].v = RoleUser
    /\ Len(LinesTrimmed(history)) = 2
    /\ Formatted.val = Joined(LinesTrimmed(history))

====
